---------------------------- MODULE Spec2Model ----------------------------
(***************************************************************************)
(* A model of the newslynx events / content API:                           *)
(*   src/newslynx/views/api/events_api.py                                  *)
(*   src/newslynx/views/api/content_api.py                                 *)
(*   src/newslynx/models/content_item.py                                   *)
(* The persisted tables are the state; every request handler is one        *)
(* action (a request is a single transaction: a RequestError raised        *)
(* before db.session.commit() leaves the tables as they were).             *)
(***************************************************************************)
EXTENDS Integers, Sequences, FiniteSets, TLC

(***************************************************************************)
(* Bounds                                                                   *)
(***************************************************************************)
\* the clock dates.now() runs from 0 to MaxNow
MaxNow == 1
\* most ids one request lists in tag_ids / thing_ids
MaxIds == 2
\* the page numbers a search asks for run from 1 to MaxPage
MaxPage == 2
\* per_page runs from 1 to MaxPerPage
MaxPerPage == 2

(***************************************************************************)
(* The catalogue the handlers read but never write: organizations, tags    *)
(* and things.                                                              *)
(***************************************************************************)
Orgs == {1, 2}

TagIds == {1, 2, 3}
TagType == (1 :> "impact") @@ (2 :> "impact") @@ (3 :> "subject")
TagOrg == (1 :> 1) @@ (2 :> 2) @@ (3 :> 1)

ThingIds == {1, 2}
ThingOrg == (1 :> 1) @@ (2 :> 2)

\* an id no row has
MissingId == 9
ReqTagIds == TagIds \cup {MissingId}
ReqThingIds == ThingIds \cup {MissingId}

Statuses == {"pending", "approved", "deleted"}
\* req_data.get('status'): one of the statuses, or absent
ReqStatuses == Statuses \cup {"none"}
Titles == {"t0", "t1"}
\* req_data.get('title'): a new title, or absent
ReqTitles == {"t1", "none"}

VARIABLES
    events,            \* the events table with its association rows
    now,               \* dates.now()
    resp,              \* the outcome of the last request
    event_delete_done, \* history: events for which event_delete has succeeded
    content,           \* the content table with its association rows
    search_resp        \* the response to the last search request

VARIABLES
    pool,               \* content_facet_pool: the number of running computations
    facet_reqs,         \* the facet computations of the search_content requests
    auths,              \* the 'google-analytics' rows of the auths table, by org
    session,            \* the session of each client
    ga_reqs,            \* the google-analytics requests in flight, by client
    ga_stashed,         \* history: the clients whose session was handed tokens
                        \* by ga_callback since their last completed save
    txns                \* the event_update requests in flight

facet_vars == <<pool, facet_reqs>>
ga_vars == <<auths, session, ga_reqs, ga_stashed>>

vars == <<events, now, resp, event_delete_done, content, search_resp,
          pool, facet_reqs, auths, session, ga_reqs, ga_stashed, txns>>

(***************************************************************************)
(* Helpers                                                                  *)
(***************************************************************************)
Min(a, b) == IF a < b THEN a ELSE b

\* the orders in which a query without ORDER BY may return the rows S
Perms(S) ==
    {s \in [1..Cardinality(S) -> S] : \A i, j \in 1..Cardinality(S) : s[i] = s[j] => i = j}

SubsetsUpTo(S, n) == {x \in SUBSET S : Cardinality(x) <= n}

\* Event.tag_ids / Event.thing_ids: the ids of the associated rows
tag_ids_of(e) == {t \in TagIds : e.tags[t] > 0}
thing_ids_of(e) == {t \in ThingIds : e.things[t] > 0}

NoTags == [t \in TagIds |-> 0]
NoThings == [t \in ThingIds |-> 0]

\* Event.query.filter_by(id=event_id, organization_id=org.id).first()
EventFound(org, event_id) ==
    /\ event_id \in DOMAIN events
    /\ events[event_id].organization_id = org


(***************************************************************************)
(* Initial state: the events as ingestion leaves them, pending and with no *)
(* associations.  The events table holds one row, of organization 1; the   *)
(* requests come from both organizations.                                   *)
(***************************************************************************)
\* no search request has been answered
NoSearch == [endpoint |-> "none", status |-> "none", total |-> 0, items |-> <<>>]

NewEvent(org) ==
    [organization_id |-> org, recipe_id |-> 0, status |-> "pending",
     title |-> "t0", created |-> 0, updated |-> 0,
     tags |-> NoTags, things |-> NoThings]

EventIds == {1}

\* the concurrent requests of the model, all idle in the initial states:
\* the search_content requests that compute facets, the browsers that go
\* through the google-analytics handshake, and the event_update requests
FacetRequests == {1, 2}
Clients == {1, 2}
Txns == {1, 2}
Absent == "absent"
NoFacetRequest == [pc |-> "idle", names |-> <<>>, next |-> 1, running |-> {},
                   facets |-> <<>>]
\* a session without keys; session.get('org_id') is then None, here 0
NoSession == [apikey |-> Absent, org_id |-> 0, redirect_uri |-> Absent,
              tokens |-> Absent]
NoGaRequest == [pc |-> "idle", handler |-> "none", last |-> "none"]
NoAuths == [next_id |-> 1, rows |-> [o \in Orgs |-> <<>>]]
NoTxn == [pc |-> "idle"]

\* nothing concurrent is going on
Quiet ==
    /\ pool = 0
    /\ facet_reqs = [r \in FacetRequests |-> NoFacetRequest]
    /\ auths = NoAuths
    /\ session = [c \in Clients |-> NoSession]
    /\ ga_reqs = [c \in Clients |-> NoGaRequest]
    /\ ga_stashed = {}
    /\ txns = [t \in Txns |-> NoTxn]

Init ==
    /\ events = [e \in EventIds |-> NewEvent(1)]
    /\ now = 0
    /\ resp = "none"
    /\ event_delete_done = {}
    /\ content = <<>>
    /\ search_resp = NoSearch
    /\ Quiet

\* time passes between requests
Tick ==
    /\ now < MaxNow
    /\ now' = now + 1
    /\ UNCHANGED <<events, resp, event_delete_done, content, search_resp, facet_vars, ga_vars, txns>>

(***************************************************************************)
(* event_update                                                             *)
(***************************************************************************)
\* mutant: the status of the request body is not overridden on approval
SetColumns_requested_status(e, approve, req_status, req_title) ==
    [e EXCEPT
        !.status = IF req_status # "none" THEN req_status
                   ELSE IF approve THEN "approved" ELSE @,
        !.title = IF req_title # "none" THEN req_title ELSE @,
        !.updated = now]

\* for k, v in req_data.items(): setattr(e, k, v), with req_data['status']
\* and req_data['updated'] as the handler has set them
SetColumns(e, approve, req_status, req_title) ==
    [e EXCEPT
        !.status = IF approve THEN "approved"
                   ELSE IF req_status # "none" THEN req_status ELSE @,
        !.title = IF req_title # "none" THEN req_title ELSE @,
        !.updated = now]

\* zip(things, tags): pairs up to the shorter of the two lists
Zip(things, tags) ==
    [i \in 1..Min(Len(things), Len(tags)) |-> <<things[i], tags[i]>>]

\* if thing.id not in e.thing_ids: e.things.append(thing)
AppendThing(e, thing) ==
    IF thing \notin thing_ids_of(e)
    THEN [e EXCEPT !.things[thing] = @ + 1]
    ELSE e

\* if tag.id not in e.tag_ids: e.tags.append(tag)
AppendTag(e, tag) ==
    IF tag \notin tag_ids_of(e)
    THEN [e EXCEPT !.tags[tag] = @ + 1]
    ELSE e

\* mutant: the type of the tag is not looked at
IsImpactTag_any(tag) == tag \in TagIds

\* tag.type != 'impact' is what the handlers refuse
IsImpactTag(tag) == TagType[tag] = "impact"

\* for thing, tag in zip(things, tags): ... from pair i on.
\* ok = FALSE when the loop raises 'Events can only be assigned Impact Tags.'
RECURSIVE ApproveLoop(_, _, _)
ApproveLoop(e, pairs, i) ==
    IF i > Len(pairs)
    THEN [ok |-> TRUE, e |-> e]
    ELSE LET e1 == AppendThing(e, pairs[i][1])
         IN  IF ~IsImpactTag(pairs[i][2])
             THEN [ok |-> FALSE, e |-> e1]
             ELSE ApproveLoop(AppendTag(e1, pairs[i][2]), pairs, i + 1)

\* mutant: only a pending event is held back
IncompleteApproval_pending_only(current_status, req_status) ==
    current_status = "pending" /\ req_status = "approved"

\* elif current_status != 'approved' and req_status == 'approved'
IncompleteApproval(current_status, req_status) ==
    current_status # "approved" /\ req_status = "approved"

\* The handler, given the order (tags, things) in which the two lookups
\* returned their rows.  The result is the response and the events table
\* after the request (unchanged when the handler raised before the commit).
event_update_result(org, event_id, tag_ids, thing_ids, req_status, req_title, tags, things) ==
    IF ~EventFound(org, event_id)
    THEN [resp |-> "event_not_found", events |-> events]
    ELSE
    LET e == events[event_id]
        current_status == e.status
        both == tag_ids # {} /\ thing_ids # {}
    IN  IF both /\ Len(tags) = 0
        THEN [resp |-> "tag_not_found", events |-> events]
        ELSE IF both /\ Len(things) = 0
        THEN [resp |-> "thing_not_found", events |-> events]
        ELSE IF ~both /\ IncompleteApproval(current_status, req_status)
        THEN [resp |-> "incomplete_approval", events |-> events]
        ELSE
        LET approve == both
            e1 == SetColumns(e, approve, req_status, req_title)
            loop == IF approve
                    THEN ApproveLoop(e1, Zip(things, tags), 1)
                    ELSE [ok |-> TRUE, e |-> e1]
        IN  IF ~loop.ok
            THEN [resp |-> "not_impact_tag", events |-> events]
            ELSE [resp |-> "ok", events |-> [events EXCEPT ![event_id] = loop.e]]

\* Tag.query.filter(Tag.id.in_(tag_ids)).all(): the rows, in any order
TagRows(tag_ids) == Perms(tag_ids \cap TagIds)
\* Thing.query.filter(Thing.id.in_(thing_ids)).all()
ThingRows(thing_ids) == Perms(thing_ids \cap ThingIds)

event_update(org, event_id, tag_ids, thing_ids, req_status, req_title) ==
    \E tags \in TagRows(tag_ids), things \in ThingRows(thing_ids) :
        LET r == event_update_result(org, event_id, tag_ids, thing_ids,
                                     req_status, req_title, tags, things)
        IN  /\ resp' = r.resp
            /\ events' = r.events
            /\ UNCHANGED <<now, event_delete_done, content, search_resp, facet_vars, ga_vars, txns>>

\* the tag_ids / thing_ids lists of a request: up to MaxIds ids of rows, or
\* an id that no row has, alone or beside the id of a row
ReqTagLists == SubsetsUpTo(TagIds, MaxIds) \cup {{MissingId}, {1, MissingId}}
ReqThingLists == SubsetsUpTo(ThingIds, MaxIds) \cup {{MissingId}, {1, MissingId}}

\* a caller of another organization gets the same answer whatever the body
EventUpdate ==
    \E org \in Orgs, event_id \in EventIds :
        IF EventFound(org, event_id)
        THEN \E tag_ids \in ReqTagLists, thing_ids \in ReqThingLists,
                req_status \in ReqStatuses, req_title \in ReqTitles :
                 event_update(org, event_id, tag_ids, thing_ids, req_status, req_title)
        ELSE event_update(org, event_id, {}, {}, "none", "none")

(***************************************************************************)
(* event_delete                                                             *)
(***************************************************************************)
\* mutant: the rows of things_events are left behind
ClearAssociations_tags_only(e) == [e EXCEPT !.tags = NoTags]

\* events_tags.delete(events_tags.c.event_id == event_id) and
\* things_events.delete(things_events.c.event_id == event_id)
ClearAssociations(e) == [e EXCEPT !.tags = NoTags, !.things = NoThings]

event_delete_result(org, event_id) ==
    IF ~EventFound(org, event_id)
    THEN [resp |-> "event_not_found", events |-> events]
    ELSE LET e1 == ClearAssociations(events[event_id])
             e2 == [e1 EXCEPT !.status = "deleted", !.updated = now]
         IN  [resp |-> "ok", events |-> [events EXCEPT ![event_id] = e2]]

event_delete(org, event_id) ==
    LET r == event_delete_result(org, event_id)
    IN  /\ resp' = r.resp
        /\ events' = r.events
        /\ event_delete_done' =
               IF r.resp = "ok" THEN event_delete_done \cup {event_id}
               ELSE event_delete_done
        /\ UNCHANGED <<now, content, search_resp, facet_vars, ga_vars, txns>>

EventDelete ==
    \E org \in Orgs, event_id \in EventIds : event_delete(org, event_id)

(***************************************************************************)
(* event_add_tag, event_delete_tag, event_add_thing, event_delete_thing     *)
(***************************************************************************)
\* Tag.query.filter_by(id=tag_id, organization_id=org.id).first()
TagFound(org, tag_id) == tag_id \in TagIds /\ TagOrg[tag_id] = org
\* Thing.query.filter_by(id=thing_id, organization_id=org.id).first()
ThingFound(org, thing_id) == thing_id \in ThingIds /\ ThingOrg[thing_id] = org

event_add_tag_result(org, event_id, tag_id) ==
    IF ~EventFound(org, event_id)
    THEN [resp |-> "event_not_found", events |-> events]
    ELSE IF ~(events[event_id].status = "approved")
    THEN [resp |-> "not_approved", events |-> events]
    ELSE IF ~TagFound(org, tag_id)
    THEN [resp |-> "tag_not_found", events |-> events]
    ELSE IF ~IsImpactTag(tag_id)
    THEN [resp |-> "not_impact_tag", events |-> events]
    ELSE LET e1 == AppendTag(events[event_id], tag_id)
             e2 == [e1 EXCEPT !.updated = now]
         IN  [resp |-> "ok", events |-> [events EXCEPT ![event_id] = e2]]

event_add_tag(org, event_id, tag_id) ==
    LET r == event_add_tag_result(org, event_id, tag_id)
    IN  /\ resp' = r.resp
        /\ events' = r.events
        /\ UNCHANGED <<now, event_delete_done, content, search_resp, facet_vars, ga_vars, txns>>

\* for tag in e.tags: if tag.id == tag_id: e.tags.remove(tag)
\* (the loop moves on by one position after a removal, so of k adjacent
\* rows of the tag every second one stays; k is 1 for every event the
\* handlers build)
RemoveTag(e, tag_id) == [e EXCEPT !.tags[tag_id] = @ \div 2]
\* for thing in e.things: if thing.id == thing_id: e.things.remove(thing)
RemoveThing(e, thing_id) == [e EXCEPT !.things[thing_id] = @ \div 2]

event_delete_tag_result(org, event_id, tag_id) ==
    IF ~EventFound(org, event_id)
    THEN [resp |-> "event_not_found", events |-> events]
    ELSE IF tag_id \notin tag_ids_of(events[event_id])
    THEN [resp |-> "not_associated", events |-> events]
    ELSE LET e1 == RemoveTag(events[event_id], tag_id)
             e2 == [e1 EXCEPT !.updated = now]
         IN  [resp |-> "ok", events |-> [events EXCEPT ![event_id] = e2]]

event_delete_tag(org, event_id, tag_id) ==
    LET r == event_delete_tag_result(org, event_id, tag_id)
    IN  /\ resp' = r.resp
        /\ events' = r.events
        /\ UNCHANGED <<now, event_delete_done, content, search_resp, facet_vars, ga_vars, txns>>

event_add_thing_result(org, event_id, thing_id) ==
    IF ~EventFound(org, event_id)
    THEN [resp |-> "event_not_found", events |-> events]
    ELSE IF ~(events[event_id].status = "approved")
    THEN [resp |-> "not_approved", events |-> events]
    ELSE IF ~ThingFound(org, thing_id)
    THEN [resp |-> "thing_not_found", events |-> events]
    ELSE LET e1 == AppendThing(events[event_id], thing_id)
             e2 == [e1 EXCEPT !.updated = now]
         IN  [resp |-> "ok", events |-> [events EXCEPT ![event_id] = e2]]

event_add_thing(org, event_id, thing_id) ==
    LET r == event_add_thing_result(org, event_id, thing_id)
    IN  /\ resp' = r.resp
        /\ events' = r.events
        /\ UNCHANGED <<now, event_delete_done, content, search_resp, facet_vars, ga_vars, txns>>

event_delete_thing_result(org, event_id, thing_id) ==
    IF ~EventFound(org, event_id)
    THEN [resp |-> "event_not_found", events |-> events]
    ELSE IF thing_id \notin thing_ids_of(events[event_id])
    THEN [resp |-> "not_associated", events |-> events]
    ELSE LET e1 == RemoveThing(events[event_id], thing_id)
             e2 == [e1 EXCEPT !.updated = now]
         IN  [resp |-> "ok", events |-> [events EXCEPT ![event_id] = e2]]

event_delete_thing(org, event_id, thing_id) ==
    LET r == event_delete_thing_result(org, event_id, thing_id)
    IN  /\ resp' = r.resp
        /\ events' = r.events
        /\ UNCHANGED <<now, event_delete_done, content, search_resp, facet_vars, ga_vars, txns>>

EventAddTag ==
    \E org \in Orgs, event_id \in EventIds, tag_id \in ReqTagIds :
        event_add_tag(org, event_id, tag_id)

EventDeleteTag ==
    \E org \in Orgs, event_id \in EventIds, tag_id \in ReqTagIds :
        event_delete_tag(org, event_id, tag_id)

EventAddThing ==
    \E org \in Orgs, event_id \in EventIds, thing_id \in ReqThingIds :
        event_add_thing(org, event_id, thing_id)

EventDeleteThing ==
    \E org \in Orgs, event_id \in EventIds, thing_id \in ReqThingIds :
        event_delete_thing(org, event_id, thing_id)

Next ==
    \/ Tick
    \/ EventUpdate
    \/ EventDelete
    \/ EventAddTag
    \/ EventDeleteTag
    \/ EventAddThing
    \/ EventDeleteThing

Spec == Init /\ [][Next]_vars

(***************************************************************************)
(* apply_event_filters                                                      *)
(* An optional parameter is a set: {} when it was not given (None, or an   *)
(* empty string or list), {v} when it was.                                  *)
(***************************************************************************)
\* the recipes, and Recipe.task -> Task.name
RecipeIds == {1, 2}
RecipeTask == (1 :> "rss") @@ (2 :> "twitter")
TaskNames == {"rss", "twitter"}

\* a NULL recipe_id
Null == 0

\* column.in_(ids) as SQL evaluates it in a WHERE clause: NULL IN (...) is
\* NULL, and so is NOT (NULL IN (...)); a row passes only on TRUE
SqlIn(v, ids) == v # Null /\ v \in ids
SqlNotIn(v, ids) == v # Null /\ v \notin ids

\* q.search(search_query) on events: the full-text match, on the title
EventSearchMatches(e, search_query) == \A w \in search_query : e.title = w

\* db.session.query(Recipe.id).filter(Recipe.task.has(Task.name.in_(tasks)))
TaskRecipes(tasks) == {r \in RecipeIds : RecipeTask[r] \in tasks}

\* mutant: the organization filter is left out
EventInOrg_any(e, org) == e.organization_id \in Orgs

\* q.filter(Event.organization_id == kw['org'])
EventInOrg(e, org) == e.organization_id = org

EventPasses(e, kw) ==
    /\ EventInOrg(e, kw.org)
    /\ kw.search_query # {} => EventSearchMatches(e, kw.search_query)
    /\ kw.status # "all" => e.status = kw.status
    /\ \A d \in kw.created_after : e.created >= d
    /\ \A d \in kw.created_before : e.created <= d
    /\ \A d \in kw.updated_after : e.updated >= d
    /\ \A d \in kw.updated_before : e.updated <= d
    /\ kw.include_recipes # {} => SqlIn(e.recipe_id, kw.include_recipes)
    /\ kw.exclude_recipes # {} => SqlNotIn(e.recipe_id, kw.exclude_recipes)
    /\ kw.include_tags # {} => tag_ids_of(e) \cap kw.include_tags # {}
    /\ kw.exclude_tags # {} => tag_ids_of(e) \cap kw.exclude_tags = {}
    /\ kw.include_things # {} => thing_ids_of(e) \cap kw.include_things # {}
    /\ kw.exclude_things # {} => thing_ids_of(e) \cap kw.exclude_things = {}
    /\ kw.include_tasks # {} => SqlIn(e.recipe_id, TaskRecipes(kw.include_tasks))
    /\ kw.exclude_tasks # {} => SqlNotIn(e.recipe_id, TaskRecipes(kw.exclude_tasks))

\* the ids of the rows of the filtered query
apply_event_filters(kw) == {id \in DOMAIN events : EventPasses(events[id], kw)}

\* the kw of a search_events request that gives no parameter
DefaultEventKw(org) ==
    [org |-> org, search_query |-> {}, status |-> "pending",
     created_after |-> {}, created_before |-> {},
     updated_after |-> {}, updated_before |-> {},
     include_recipes |-> {}, exclude_recipes |-> {},
     include_tags |-> {}, exclude_tags |-> {},
     include_things |-> {}, exclude_things |-> {},
     include_tasks |-> {}, exclude_tasks |-> {},
     fields |-> {}, sort_field |-> "created", direction |-> "desc",
     page |-> 1, per_page |-> MaxPerPage]

(***************************************************************************)
(* search_events                                                            *)
(***************************************************************************)
\* the columns of Event a request may sort by or select
EventColumns ==
    {"id", "organization_id", "recipe_id", "status", "title", "created", "updated"}
EventStatuses == Statuses \cup {"all"}

\* the value of an integer column of a row
ColumnValue(rows, id, column) ==
    IF column = "id" THEN id
    ELSE IF column = "created" THEN rows[id].created
    ELSE rows[id].updated

\* query.order_by(column.asc() / column.desc()).all(): the rows in an order
\* that agrees with the sort key; rows with equal keys come in any order
OrderedBy(rows, ids, column, direction) ==
    {s \in Perms(ids) :
        \A i, j \in 1..Len(s) :
            i < j => IF direction = "asc"
                     THEN ColumnValue(rows, s[i], column) <= ColumnValue(rows, s[j], column)
                     ELSE ColumnValue(rows, s[i], column) >= ColumnValue(rows, s[j], column)}

\* query.paginate(page, per_page, False).items
Paginate(order, page, per_page) ==
    SubSeq(order, (page - 1) * per_page + 1, Min(page * per_page, Len(order)))

\* the columns the model can sort by (the integer ones)
SortColumns == {"id", "created", "updated"}

\* the validations of search_events, each raising before the queries
search_events_invalid(kw) ==
    \/ kw.sort_field \notin EventColumns
    \/ \E f \in kw.fields : f \notin EventColumns
    \/ kw.status # "pending" /\ kw.status \notin EventStatuses

\* the orders in which the sorted event query may return its rows
EventOrders(kw) ==
    IF search_events_invalid(kw) THEN {<<>>}
    ELSE OrderedBy(events, apply_event_filters(kw), kw.sort_field, kw.direction)

\* 1 for a list that was given, 0 for an empty one
Given(list) == IF list # {} THEN 1 ELSE 0

\* the queries a call of apply_event_filters executes: the recipes of the
\* included and of the excluded tasks
event_filter_queries(kw) == Given(kw.include_tasks) + Given(kw.exclude_tasks)

\* the queries search_events has executed when it returns or raises: none
\* when a validation raised; otherwise those of the two calls of
\* apply_event_filters, the ids of the filtered events, the six counts, and
\* the items and the total of the page
search_events_queries(kw) ==
    IF search_events_invalid(kw) THEN 0
    ELSE 2 * event_filter_queries(kw) + 1 + 6 + 2

\* The response, the sorted query returning its rows in the given order.
\* kw stands for the pagination links, which echo the request's parameters.
search_events_result(kw, order) ==
    IF search_events_invalid(kw)
    THEN [endpoint |-> "events", kw |-> kw, status |-> "invalid",
          total |-> 0, items |-> <<>>, queries |-> search_events_queries(kw)]
    ELSE [endpoint |-> "events", kw |-> kw, status |-> "ok",
          total |-> Cardinality(apply_event_filters(kw)),
          items |-> Paginate(order, kw.page, kw.per_page),
          queries |-> search_events_queries(kw)]

search_events(kw) ==
    \E order \in EventOrders(kw) :
        /\ search_resp' = search_events_result(kw, order)
        /\ UNCHANGED <<events, now, resp, event_delete_done, content, facet_vars, ga_vars, txns>>

(***************************************************************************)
(* apply_content_item_filters and search_content                            *)
(***************************************************************************)
\* Tag.category and Tag.level ("none" on a tag that is no impact tag)
TagCategory == (1 :> "change") @@ (2 :> "promotion") @@ (3 :> "none")
TagLevel == (1 :> "media") @@ (2 :> "institution") @@ (3 :> "none")
TagCategories == {"change", "promotion"}
TagLevels == {"media", "institution"}

\* Recipe.sous_chef -> SousChef.name
RecipeSousChef == (1 :> "rss-feed") @@ (2 :> "twitter-list")

ContentItemTypes == {"article", "video"}
ContentItemProvenances == {"recipe", "manual"}
ContentItemColumns ==
    {"id", "org_id", "recipe_id", "type", "provenance", "url", "domain",
     "created", "updated", "title", "description", "body"}
SearchVectors == {"all", "authors", "title", "body", "description", "meta"}
CONTENT_ITEM_EVENT_FACETS == {"events", "event_statuses"}
CONTENT_ITEM_FACETS == {"tags", "categories", "levels"} \cup CONTENT_ITEM_EVENT_FACETS

\* q.search(search_query, vector=vector, sort=sort): the full-text match of
\* a row on the chosen vector; the rows of the model carry a title and a body
ContentSearchMatches(c, search_query, search_vector) ==
    \A w \in search_query :
        \/ search_vector \in {"all", "title"} /\ c.title = w
        \/ search_vector \in {"all", "body"} /\ c.body = w

\* content.url ~ :regex, for the patterns "." (any character) and a literal
UrlRegexMatches(url, regex) == regex = "." \/ url = regex

RECURSIVE SumTags(_, _)
SumTags(e, tagset) ==
    IF tagset = {} THEN 0
    ELSE LET t == CHOOSE x \in tagset : TRUE
         IN  e.tags[t] + SumTags(e, tagset \ {t})

\* db.session.query(events_tags.c.event_id).join(Tag).filter_by(org_id=..)
\*    .filter(Tag.category.in_(categories)).all():
\* how many times each event id comes back, once per row of events_tags
CategoryEventIds(org_id, categories) ==
    [e \in DOMAIN events |->
        SumTags(events[e], {t \in TagIds : TagOrg[t] = org_id
                                           /\ TagCategory[t] \in categories})]

\* the same with Tag.level.in_(levels)
LevelEventIds(org_id, levels) ==
    [e \in DOMAIN events |->
        SumTags(events[e], {t \in TagIds : TagOrg[t] = org_id
                                           /\ TagLevel[t] \in levels})]

\* the ids of a list of event ids
IdSet(event_ids) == {e \in DOMAIN event_ids : event_ids[e] > 0}

\* for e in event_ids: all_event_ids.remove(e) raises KeyError on an id that
\* is not (or no longer) in the set
RemoveRaises(all_event_ids, event_ids) ==
    \E e \in DOMAIN event_ids :
        \/ event_ids[e] > 1
        \/ event_ids[e] = 1 /\ e \notin all_event_ids

\* all_event_ids after the four category / level blocks, in the order of
\* the code; ok = FALSE when a remove raised
AccumulateEventIds(kw) ==
    LET ic == CategoryEventIds(kw.org_id, kw.include_categories)
        ec == CategoryEventIds(kw.org_id, kw.exclude_categories)
        il == LevelEventIds(kw.org_id, kw.include_levels)
        el == LevelEventIds(kw.org_id, kw.exclude_levels)
        s1 == IF kw.include_categories # {} THEN IdSet(ic) ELSE {}
        r2 == kw.exclude_categories # {} /\ RemoveRaises(s1, ec)
        s2 == IF kw.exclude_categories # {} THEN s1 \ IdSet(ec) ELSE s1
        s3 == IF kw.include_levels # {} THEN s2 \cup IdSet(il) ELSE s2
        r4 == kw.exclude_levels # {} /\ RemoveRaises(s3, el)
        s4 == IF kw.exclude_levels # {} THEN s3 \ IdSet(el) ELSE s3
    IN  [ok |-> ~r2 /\ ~r4, all_event_ids |-> s4]

\* db.session.query(Recipe.id).filter(Recipe.sous_chef.has(SousChef.name.in_(..)))
SousChefRecipes(sous_chefs) == {r \in RecipeIds : RecipeSousChef[r] \in sous_chefs}

\* mutant: the organization filter is left out
ContentInOrg_any(c, org_id) == c.org_id \in Orgs

\* q.filter(ContentItem.org_id == kw['org_id'])
ContentInOrg(c, org_id) == c.org_id = org_id

\* ContentItem.events.any(Event.id.in_(event_ids))
AnyEventIn(c, event_ids) == c.events \cap IdSet(event_ids) # {}

ContentPasses(c, kw) ==
    /\ ContentInOrg(c, kw.org_id)
    /\ kw.search_query # {}
          => ContentSearchMatches(c, kw.search_query, kw.search_vector)
    /\ kw.type # "all" => c.type = kw.type
    /\ \A v \in kw.provenance : c.provenance = v
    /\ \A v \in kw.url : c.url = v
    /\ \A v \in kw.url_regex : UrlRegexMatches(c.url, v)
    /\ \A v \in kw.domain : c.domain = v
    /\ \A d \in kw.created_after : c.created >= d
    /\ \A d \in kw.created_before : c.created <= d
    /\ \A d \in kw.updated_after : c.updated >= d
    /\ \A d \in kw.updated_before : c.updated <= d
    /\ kw.include_recipes # {} => SqlIn(c.recipe_id, kw.include_recipes)
    /\ kw.exclude_recipes # {} => SqlNotIn(c.recipe_id, kw.exclude_recipes)
    /\ kw.include_categories # {}
          => AnyEventIn(c, CategoryEventIds(kw.org_id, kw.include_categories))
    /\ kw.exclude_categories # {}
          => AnyEventIn(c, CategoryEventIds(kw.org_id, kw.exclude_categories))
    /\ kw.include_levels # {}
          => AnyEventIn(c, LevelEventIds(kw.org_id, kw.include_levels))
    /\ kw.exclude_levels # {}
          => AnyEventIn(c, LevelEventIds(kw.org_id, kw.exclude_levels))
    /\ kw.include_tags # {} => c.tags \cap kw.include_tags # {}
    /\ kw.exclude_tags # {} => c.tags \cap kw.exclude_tags = {}
    /\ kw.include_sous_chefs # {}
          => SqlIn(c.recipe_id, SousChefRecipes(kw.include_sous_chefs))
    /\ kw.exclude_sous_chefs # {}
          => SqlNotIn(c.recipe_id, SousChefRecipes(kw.exclude_sous_chefs))

\* the filtered query (the ids of its rows) and list(all_event_ids);
\* ok = FALSE when composing the filters raised
apply_content_item_filters(kw) ==
    LET acc == AccumulateEventIds(kw)
    IN  [ok |-> acc.ok,
         ids |-> {id \in DOMAIN content : ContentPasses(content[id], kw)},
         event_ids |-> acc.all_event_ids]

\* the kw of a search_content request that gives no parameter
DefaultContentKw(org) ==
    [org_id |-> org, search_query |-> {}, search_vector |-> "all",
     type |-> "all", provenance |-> {}, url |-> {}, url_regex |-> {},
     domain |-> {},
     created_after |-> {}, created_before |-> {},
     updated_after |-> {}, updated_before |-> {},
     include_recipes |-> {}, exclude_recipes |-> {},
     include_categories |-> {}, exclude_categories |-> {},
     include_levels |-> {}, exclude_levels |-> {},
     include_tags |-> {}, exclude_tags |-> {},
     include_sous_chefs |-> {}, exclude_sous_chefs |-> {},
     fields |-> {}, facets |-> {},
     sort_field |-> "created", direction |-> "desc",
     page |-> 1, per_page |-> MaxPerPage]

\* the validations that precede the base query
search_content_invalid(kw) ==
    \/ kw.sort_field # "relevance" /\ kw.sort_field \notin ContentItemColumns
    \/ \E f \in kw.fields : f \notin ContentItemColumns
    \/ \E c \in kw.include_categories \cup kw.exclude_categories : c \notin TagCategories
    \/ \E l \in kw.include_levels \cup kw.exclude_levels : l \notin TagLevels
    \/ kw.type \notin ContentItemTypes \cup {"all"}
    \/ \E v \in kw.provenance : v \notin ContentItemProvenances
    \/ kw.search_vector \notin SearchVectors

\* validate_content_item_facets(kw['facets']), after the filters
facets_invalid(kw) == \E f \in kw.facets : f \notin CONTENT_ITEM_FACETS \cup {"all"}

\* the orders in which the content query may return its rows: by the sort
\* column, or, for sort=relevance, by rank (any order, the rank not being
\* a column of the model; no ORDER BY at all without a search query)
ContentOrders(kw) ==
    IF search_content_invalid(kw) \/ ~apply_content_item_filters(kw).ok
          \/ facets_invalid(kw)
    THEN {<<>>}
    ELSE IF kw.sort_field = "relevance"
    THEN Perms(apply_content_item_filters(kw).ids)
    ELSE OrderedBy(content, apply_content_item_filters(kw).ids,
                   kw.sort_field, kw.direction)

\* the facets of the response: for each requested name the ids its worker
\* is handed (event_ids or content_item_ids)
Facets(kw, filtered) ==
    LET names == IF "all" \in kw.facets THEN CONTENT_ITEM_FACETS ELSE kw.facets
        fetched == {e \in DOMAIN events :
                       \E id \in filtered.ids : e \in content[id].events}
        event_ids ==
            IF filtered.event_ids = {} /\ names \cap CONTENT_ITEM_EVENT_FACETS # {}
            THEN fetched
            ELSE filtered.event_ids
    IN  [by \in names |->
            IF by \in CONTENT_ITEM_EVENT_FACETS THEN event_ids ELSE filtered.ids]

\* the queries apply_content_item_filters has executed when it returns or
\* raises: the event ids of each category and level list that was given, up
\* to the block whose remove raises, and the recipes of the sous chefs
content_filter_queries(kw) ==
    LET s1 == IF kw.include_categories # {}
              THEN IdSet(CategoryEventIds(kw.org_id, kw.include_categories)) ELSE {}
        r2 == /\ kw.exclude_categories # {}
              /\ RemoveRaises(s1, CategoryEventIds(kw.org_id, kw.exclude_categories))
    IN  Given(kw.include_categories) + Given(kw.exclude_categories)
        + IF r2 THEN 0
          ELSE Given(kw.include_levels) + Given(kw.exclude_levels)
               + IF ~AccumulateEventIds(kw).ok THEN 0
                 ELSE Given(kw.include_sous_chefs) + Given(kw.exclude_sous_chefs)

\* the queries search_content has executed when it returns or raises: none
\* when one of the validations before the base query raised; those of the
\* filters when the filters or the validation of the facets raised;
\* otherwise also the content item ids and, where needed, the event ids of
\* the facets, and the items and the total of the page
search_content_queries(kw) ==
    IF search_content_invalid(kw) THEN 0
    ELSE IF ~apply_content_item_filters(kw).ok \/ facets_invalid(kw)
    THEN content_filter_queries(kw)
    ELSE content_filter_queries(kw)
         + (IF kw.facets = {} THEN 0
            ELSE IF /\ apply_content_item_filters(kw).event_ids = {}
                    /\ (IF "all" \in kw.facets THEN CONTENT_ITEM_FACETS ELSE kw.facets)
                           \cap CONTENT_ITEM_EVENT_FACETS # {}
            THEN 2 ELSE 1)
         + 2

search_content_result(kw, order) ==
    LET failed(status) ==
            [endpoint |-> "content", kw |-> kw, status |-> status,
             total |-> 0, items |-> <<>>, facets |-> <<>>,
             queries |-> search_content_queries(kw)]
        filtered == apply_content_item_filters(kw)
    IN  IF search_content_invalid(kw) THEN failed("invalid")
        ELSE IF ~filtered.ok THEN failed("key_error")
        ELSE IF facets_invalid(kw) THEN failed("invalid")
        ELSE [endpoint |-> "content", kw |-> kw, status |-> "ok",
              total |-> Cardinality(filtered.ids),
              items |-> Paginate(order, kw.page, kw.per_page),
              facets |-> Facets(kw, filtered),
              queries |-> search_content_queries(kw)]

search_content(kw) ==
    \E order \in ContentOrders(kw) :
        /\ search_resp' = search_content_result(kw, order)
        /\ UNCHANGED <<events, now, resp, event_delete_done, content, facet_vars, ga_vars, txns>>

(***************************************************************************)
(* The searches over a populated database: three events and three content  *)
(* items, the first two of each of organization 1 and the third of         *)
(* organization 2, the first two created at the same time.  The statuses   *)
(* of the events, the tag of event 1 and the types of the content items    *)
(* vary.                                                                    *)
(***************************************************************************)
SearchIds == {1, 2, 3}
RowOrg == (1 :> 1) @@ (2 :> 1) @@ (3 :> 2)
RowRecipe == (1 :> 1) @@ (2 :> Null) @@ (3 :> 2)
RowCreated == (1 :> 0) @@ (2 :> 0) @@ (3 :> 1)
RowUpdated == (1 :> 1) @@ (2 :> 0) @@ (3 :> 1)
RowTitle == (1 :> "t0") @@ (2 :> "t1") @@ (3 :> "t0")
RowUrl == (1 :> "u1") @@ (2 :> "u2") @@ (3 :> "u1")
RowDomain == (1 :> "d1") @@ (2 :> "d2") @@ (3 :> "d1")
RowProvenance == (1 :> "recipe") @@ (2 :> "manual") @@ (3 :> "recipe")
RowTags == (1 :> {3}) @@ (2 :> {}) @@ (3 :> {})
RowEvents == (1 :> {1, 2}) @@ (2 :> {}) @@ (3 :> {3})

EventRow(id, status, tags) ==
    [organization_id |-> RowOrg[id], recipe_id |-> RowRecipe[id],
     status |-> status, title |-> RowTitle[id],
     created |-> RowCreated[id], updated |-> RowUpdated[id],
     tags |-> IF id = 1 THEN tags ELSE NoTags,
     things |-> IF id = 1 /\ tags # NoTags THEN [NoThings EXCEPT ![1] = 1]
                ELSE NoThings]

ContentRow(id, type) ==
    [org_id |-> RowOrg[id], recipe_id |-> RowRecipe[id], type |-> type,
     provenance |-> RowProvenance[id], url |-> RowUrl[id],
     domain |-> RowDomain[id], title |-> RowTitle[id], body |-> "t1",
     created |-> RowCreated[id], updated |-> RowUpdated[id],
     tags |-> RowTags[id], events |-> RowEvents[id]]

InitSearch ==
    /\ \E status \in [SearchIds -> Statuses],
          tags \in {NoTags, [NoTags EXCEPT ![1] = 1]} :
          events = [id \in SearchIds |-> EventRow(id, status[id], tags)]
    /\ \E type \in [SearchIds -> ContentItemTypes] :
          content = [id \in SearchIds |-> ContentRow(id, type[id])]
    /\ now = MaxNow
    /\ resp = "none"
    /\ event_delete_done = {}
    /\ search_resp = NoSearch
    /\ Quiet

\* the sort, page and per_page parameters of the requests
SortFields == SortColumns \cup {"bogus"}
Directions == {"asc", "desc"}
Pages == 1..MaxPage
PerPages == 1..MaxPerPage

\* the search_events requests: one filter parameter (or one include /
\* exclude pair) at a time over the defaults, and the sort and paging
\* parameters over the default and the 'all' status filter
EventSearchKws ==
    UNION {
        LET d == DefaultEventKw(org)
        IN  {[d EXCEPT !.status = v] : v \in EventStatuses \cup {"bogus"}}
            \cup {[d EXCEPT !.search_query = v] : v \in {{"t0"}}}
            \cup {[d EXCEPT !.fields = v] : v \in {{"title"}, {"bogus"}}}
            \cup {[d EXCEPT !.created_after = v, !.created_before = w] :
                     v \in {{}, {1}}, w \in {{}, {0}}}
            \cup {[d EXCEPT !.updated_after = v, !.updated_before = w] :
                     v \in {{}, {1}}, w \in {{}, {0}}}
            \cup {[d EXCEPT !.include_recipes = v, !.exclude_recipes = w] :
                     v \in {{}, {1}}, w \in {{}, {2}}}
            \cup {[d EXCEPT !.include_tags = v, !.exclude_tags = w] :
                     v \in {{}, {1}}, w \in {{}, {2}}}
            \cup {[d EXCEPT !.include_things = v, !.exclude_things = w] :
                     v \in {{}, {1}}, w \in {{}, {2}}}
            \cup {[d EXCEPT !.include_tasks = v, !.exclude_tasks = w] :
                     v \in {{}, {"rss"}}, w \in {{}, {"twitter"}}}
            \cup {[d EXCEPT !.status = st, !.sort_field = f, !.direction = dr,
                            !.page = p, !.per_page = pp] :
                     st \in {"pending", "all"}, f \in SortFields,
                     dr \in Directions, p \in Pages, pp \in PerPages}
        : org \in Orgs}

ContentSearchKws ==
    UNION {
        LET d == DefaultContentKw(org)
        IN  {[d EXCEPT !.type = v] : v \in ContentItemTypes \cup {"all", "bogus"}}
            \cup {[d EXCEPT !.search_query = v, !.search_vector = w] :
                     v \in {{"t0"}}, w \in {"all", "title", "body", "bogus"}}
            \cup {[d EXCEPT !.fields = v] : v \in {{"title"}, {"bogus"}}}
            \cup {[d EXCEPT !.facets = v] :
                     v \in {{"all"}, {"tags"}, {"events"}, {"bogus"}}}
            \cup {[d EXCEPT !.facets = {"bogus"}, !.include_categories = v,
                            !.include_sous_chefs = w] :
                     v \in {{}, {"change"}}, w \in {{}, {"rss-feed"}}}
            \cup {[d EXCEPT !.facets = {"events"}, !.include_categories = v,
                            !.url = w] :
                     v \in {{}, {"change"}}, w \in {{}, {"u2"}}}
            \cup {[d EXCEPT !.provenance = v] : v \in {{"manual"}, {"bogus"}}}
            \cup {[d EXCEPT !.url = v] : v \in {{"u1"}}}
            \cup {[d EXCEPT !.url_regex = v] : v \in {{"."}, {"u2"}}}
            \cup {[d EXCEPT !.domain = v] : v \in {{"d1"}}}
            \cup {[d EXCEPT !.created_after = v, !.created_before = w] :
                     v \in {{}, {1}}, w \in {{}, {0}}}
            \cup {[d EXCEPT !.updated_after = v, !.updated_before = w] :
                     v \in {{}, {1}}, w \in {{}, {0}}}
            \cup {[d EXCEPT !.include_recipes = v, !.exclude_recipes = w] :
                     v \in {{}, {1}}, w \in {{}, {2}}}
            \cup {[d EXCEPT !.include_categories = v, !.exclude_categories = w] :
                     v \in {{}, {"change"}, {"bogus"}}, w \in {{}, {"change"}, {"promotion"}}}
            \cup {[d EXCEPT !.include_levels = v, !.exclude_levels = w] :
                     v \in {{}, {"media"}, {"bogus"}}, w \in {{}, {"media"}, {"institution"}}}
            \cup {[d EXCEPT !.include_tags = v, !.exclude_tags = w] :
                     v \in {{}, {3}}, w \in {{}, {3}}}
            \cup {[d EXCEPT !.include_sous_chefs = v, !.exclude_sous_chefs = w] :
                     v \in {{}, {"rss-feed"}}, w \in {{}, {"twitter-list"}}}
            \cup {[d EXCEPT !.sort_field = f, !.direction = dr,
                            !.page = p, !.per_page = pp] :
                     f \in SortFields \cup {"relevance"},
                     dr \in Directions, p \in Pages, pp \in PerPages}
        : org \in Orgs}

\* A run answers one search: the searches only read the tables, so a
\* second one starts from the same tables as the first.
SearchEvents ==
    /\ search_resp = NoSearch
    /\ \E kw \in EventSearchKws : search_events(kw)

SearchContent ==
    /\ search_resp = NoSearch
    /\ \E kw \in ContentSearchKws : search_content(kw)

NextSearch ==
    \/ SearchEvents
    \/ SearchContent

SpecSearch == InitSearch /\ [][NextSearch]_vars

(***************************************************************************)
(* Properties of the events API                                             *)
(***************************************************************************)
HasAssociations(e) == tag_ids_of(e) # {} \/ thing_ids_of(e) # {}

\* C1: an event_update of a non-approved event whose non-empty tag_ids and
\* thing_ids all resolve to impact tags and to things succeeds, leaves the
\* event approved, and leaves every listed tag and every listed thing
\* associated with it exactly once, whatever the numbers of tags and things.
C1_EveryListedAssociated ==
    [][\A org \in Orgs, event_id \in EventIds,
          tag_ids \in ReqTagLists, thing_ids \in ReqThingLists,
          req_status \in ReqStatuses, req_title \in ReqTitles :
          ( /\ EventFound(org, event_id)
            /\ events[event_id].status # "approved"
            /\ tag_ids # {} /\ thing_ids # {}
            /\ tag_ids \subseteq TagIds /\ thing_ids \subseteq ThingIds
            /\ \A t \in tag_ids : TagType[t] = "impact"
            /\ event_update(org, event_id, tag_ids, thing_ids, req_status, req_title) )
          => /\ resp' = "ok"
             /\ events'[event_id].status = "approved"
             /\ \A t \in tag_ids : events'[event_id].tags[t] = 1
             /\ \A t \in thing_ids : events'[event_id].things[t] = 1]_vars

\* C2: an event_update with non-empty tag_ids and thing_ids among whose
\* resolved tags one is not an impact tag fails and leaves the persisted
\* event as it was.
C2_NonImpactTagRejected ==
    [][\A org \in Orgs, event_id \in EventIds,
          tag_ids \in ReqTagLists, thing_ids \in ReqThingLists,
          req_status \in ReqStatuses, req_title \in ReqTitles :
          ( /\ EventFound(org, event_id)
            /\ tag_ids # {} /\ thing_ids # {}
            /\ \E t \in tag_ids \cap TagIds : TagType[t] # "impact"
            /\ event_update(org, event_id, tag_ids, thing_ids, req_status, req_title) )
          => resp' # "ok" /\ events' = events]_vars

\* an event_update that asks for status 'approved' without both lists
ApprovalWithoutLists(org, event_id, tag_ids, thing_ids, req_title) ==
    /\ EventFound(org, event_id)
    /\ tag_ids = {} \/ thing_ids = {}
    /\ event_update(org, event_id, tag_ids, thing_ids, "approved", req_title)

\* C3 as stated: from any current status, an event_update that asks for
\* status 'approved' without both a non-empty tag_ids and a non-empty
\* thing_ids fails.
C3_ApprovalWithoutListsFails ==
    [][\A org \in Orgs, event_id \in EventIds,
          tag_ids \in ReqTagLists, thing_ids \in ReqThingLists,
          req_title \in ReqTitles :
          ApprovalWithoutLists(org, event_id, tag_ids, thing_ids, req_title)
          => resp' # "ok"]_vars

\* the events table after any request other than event_update
OtherResults ==
    {event_delete_result(org, event_id).events :
        org \in Orgs, event_id \in EventIds}
    \cup {event_add_tag_result(org, event_id, tag_id).events :
        org \in Orgs, event_id \in EventIds, tag_id \in ReqTagIds}
    \cup {event_delete_tag_result(org, event_id, tag_id).events :
        org \in Orgs, event_id \in EventIds, tag_id \in ReqTagIds}
    \cup {event_add_thing_result(org, event_id, thing_id).events :
        org \in Orgs, event_id \in EventIds, thing_id \in ReqThingIds}
    \cup {event_delete_thing_result(org, event_id, thing_id).events :
        org \in Orgs, event_id \in EventIds, thing_id \in ReqThingIds}

\* C3 (amended): on an event that is not approved, an event_update that asks
\* for status 'approved' without both lists fails and changes nothing (on an
\* approved event it succeeds and the status stays 'approved'); and no
\* request other than an event_update with non-empty tag_ids and thing_ids
\* takes an event from another status to 'approved'.
C3_NoApprovalWithoutLists ==
    \A event_id \in DOMAIN events :
        /\ \A org \in Orgs, tag_ids \in ReqTagLists, thing_ids \in ReqThingLists,
              req_status \in ReqStatuses, req_title \in ReqTitles :
              \A tags \in TagRows(tag_ids), things \in ThingRows(thing_ids) :
                 LET r == event_update_result(org, event_id, tag_ids, thing_ids,
                                              req_status, req_title, tags, things)
                     approved == events[event_id].status = "approved"
                 IN  (EventFound(org, event_id) /\ (tag_ids = {} \/ thing_ids = {}))
                     => /\ req_status = "approved"
                           => IF approved
                              THEN /\ r.resp = "ok"
                                   /\ r.events[event_id].status = "approved"
                              ELSE /\ r.resp = "incomplete_approval"
                                   /\ r.events = events
                        /\ ~approved => r.events[event_id].status # "approved"
        /\ \A after \in OtherResults :
              events[event_id].status # "approved"
              => after[event_id].status # "approved"

\* an incomplete approval has been refused
C3_Witness == resp = "incomplete_approval"

\* C4: event_delete on an event of the caller's organization succeeds from
\* every status, and afterwards the row exists with status 'deleted' and
\* without associations; no step removes a row of the events table.
C4_DeleteIsSoft ==
    [][/\ \A org \in Orgs, event_id \in EventIds :
             (EventFound(org, event_id) /\ event_delete(org, event_id))
             => /\ resp' = "ok"
                /\ event_id \in DOMAIN events'
                /\ events'[event_id].status = "deleted"
                /\ ~HasAssociations(events'[event_id])
       /\ DOMAIN events \subseteq DOMAIN events']_vars

\* event_delete has succeeded on an event
C4_Witness ==
    \E event_id \in event_delete_done :
        /\ resp = "ok"
        /\ event_id \in DOMAIN events
        /\ events[event_id].status = "deleted"

\* C5: an event whose status is 'deleted' has no associations.
C5_DeletedHasNoAssociations ==
    \A event_id \in DOMAIN events :
        events[event_id].status = "deleted" => ~HasAssociations(events[event_id])

\* C6: on an event that is not approved, event_add_tag, event_add_thing,
\* event_delete_tag and event_delete_thing fail and change nothing.
C6_NeedsApprovedEvent ==
    [][\A org \in Orgs, event_id \in EventIds :
          (EventFound(org, event_id) /\ events[event_id].status # "approved")
          => /\ \A tag_id \in ReqTagIds :
                   (event_add_tag(org, event_id, tag_id)
                       \/ event_delete_tag(org, event_id, tag_id))
                   => resp' # "ok" /\ events' = events
             /\ \A thing_id \in ReqThingIds :
                   (event_add_thing(org, event_id, thing_id)
                       \/ event_delete_thing(org, event_id, thing_id))
                   => resp' # "ok" /\ events' = events]_vars

\* C7: every tag associated with an event is an impact tag.
C7_OnlyImpactTags ==
    \A event_id \in DOMAIN events :
        \A t \in tag_ids_of(events[event_id]) : TagType[t] = "impact"

\* an event carries a tag, and a tag that is no impact tag was refused
C7_Witness ==
    /\ resp = "not_impact_tag"
    /\ \E event_id \in DOMAIN events : tag_ids_of(events[event_id]) # {}

\* C8: an event with a tag association has status 'approved'.
C8_TagsOnlyOnApproved ==
    \A event_id \in DOMAIN events :
        tag_ids_of(events[event_id]) # {} => events[event_id].status = "approved"

\* C9: the default search (status = 'pending') of no organization returns
\* an event for which event_delete has succeeded.
C9_DeletedStaysOutOfDefaultSearch ==
    \A event_id \in event_delete_done :
        \A org \in Orgs : event_id \notin apply_event_filters(DefaultEventKw(org))

(***************************************************************************)
(* Properties of the searches                                               *)
(***************************************************************************)
\* the response answers a request that gave no filter parameter (the sort
\* and paging parameters are no filters)
NoFilters(r) ==
    [r.kw EXCEPT !.sort_field = "created", !.direction = "desc",
                 !.page = 1, !.per_page = MaxPerPage]
    = IF r.endpoint = "events" THEN DefaultEventKw(r.kw.org)
      ELSE DefaultContentKw(r.kw.org_id)

OrgEvents(org) == {id \in DOMAIN events : events[id].organization_id = org}
OrgContent(org) == {id \in DOMAIN content : content[id].org_id = org}
Items(r) == {r.items[i] : i \in 1..Len(r.items)}

\* C10 as stated: a search_content or search_events request without filter
\* parameters returns as total the number of all rows of the caller's
\* organization, and no row of another organization.
C10_NoFilterTotalIsAllRows ==
    (search_resp.status = "ok" /\ NoFilters(search_resp))
    => IF search_resp.endpoint = "events"
       THEN /\ search_resp.total = Cardinality(OrgEvents(search_resp.kw.org))
            /\ Items(search_resp) \subseteq OrgEvents(search_resp.kw.org)
       ELSE /\ search_resp.total = Cardinality(OrgContent(search_resp.kw.org_id))
            /\ Items(search_resp) \subseteq OrgContent(search_resp.kw.org_id)

\* C10 (amended): without filter parameters search_content returns as total
\* the number of all content items of the caller's organization, and
\* search_events the number of the organization's events whose status is
\* 'pending', the default of the status parameter (with status=all and no
\* other filter: of all its events); neither returns a row of another
\* organization.
C10_NoFilterTotal ==
    search_resp.status = "ok"
    => /\ (search_resp.endpoint = "content" /\ NoFilters(search_resp))
          => /\ search_resp.total = Cardinality(OrgContent(search_resp.kw.org_id))
             /\ Items(search_resp) \subseteq OrgContent(search_resp.kw.org_id)
       /\ (search_resp.endpoint = "events" /\ NoFilters(search_resp))
          => /\ search_resp.total =
                   Cardinality({id \in OrgEvents(search_resp.kw.org) :
                                   events[id].status = "pending"})
             /\ Items(search_resp) \subseteq OrgEvents(search_resp.kw.org)
       /\ (search_resp.endpoint = "events"
              /\ search_resp.kw.status = "all"
              /\ NoFilters([search_resp EXCEPT !.kw.status = "pending"]))
          => /\ search_resp.total = Cardinality(OrgEvents(search_resp.kw.org))
             /\ Items(search_resp) \subseteq OrgEvents(search_resp.kw.org)

\* a search_events without filter parameters has returned some, and not
\* all, of the events of the organization
C10_Witness ==
    /\ search_resp.status = "ok"
    /\ search_resp.endpoint = "events"
    /\ NoFilters(search_resp)
    /\ search_resp.total > 0
    /\ search_resp.total < Cardinality(OrgEvents(search_resp.kw.org))
    /\ Len(search_resp.items) > 0

(***************************************************************************)
(* Properties of the filters                                                *)
(***************************************************************************)
\* the recipes a row is associated with: none when recipe_id is NULL
RecipesOf(row) == IF row.recipe_id = Null THEN {} ELSE {row.recipe_id}

\* an inclusion list keeps the rows associated with at least one listed id,
\* an exclusion list the rows associated with none of them
IdListKeeps(associated, include, exclude) ==
    /\ include # {} => associated \cap include # {}
    /\ exclude # {} => associated \cap exclude = {}

\* C11: for the recipe, tag and thing id-list filters of both searches, an
\* inclusion list keeps exactly the (otherwise matching) rows of the
\* organization associated with at least one listed id and an exclusion list
\* exactly the rows associated with none of them; a row without a recipe is
\* kept by a recipe exclusion list.
C11_IdListFilters ==
    search_resp.status = "ok"
    => LET kw == search_resp.kw
       IN  IF search_resp.endpoint = "events"
           THEN LET base == [kw EXCEPT !.include_recipes = {}, !.exclude_recipes = {},
                                       !.include_tags = {}, !.exclude_tags = {},
                                       !.include_things = {}, !.exclude_things = {}]
                IN  search_resp.total = Cardinality(
                        {id \in apply_event_filters(base) :
                            /\ IdListKeeps(RecipesOf(events[id]),
                                           kw.include_recipes, kw.exclude_recipes)
                            /\ IdListKeeps(tag_ids_of(events[id]),
                                           kw.include_tags, kw.exclude_tags)
                            /\ IdListKeeps(thing_ids_of(events[id]),
                                           kw.include_things, kw.exclude_things)})
           ELSE LET base == [kw EXCEPT !.include_recipes = {}, !.exclude_recipes = {},
                                       !.include_tags = {}, !.exclude_tags = {}]
                IN  search_resp.total = Cardinality(
                        {id \in apply_content_item_filters(base).ids :
                            /\ IdListKeeps(RecipesOf(content[id]),
                                           kw.include_recipes, kw.exclude_recipes)
                            /\ IdListKeeps(content[id].tags,
                                           kw.include_tags, kw.exclude_tags)})

\* the request without the exclude lists that have no include list
WithoutLoneExcludes(kw) ==
    [kw EXCEPT
        !.exclude_categories = IF kw.include_categories = {} THEN {} ELSE @,
        !.exclude_levels = IF kw.include_levels = {} THEN {} ELSE @]

\* C12: an exclude-category or exclude-level list given without the
\* corresponding include list changes nothing: the filters compose without
\* error, no event id is returned, and the content rows are those of the
\* same request without the exclude list, whatever tags the events carry.
C12_ExcludeOnlyIsNoOp ==
    LET kw == search_resp.kw
    IN  ( /\ search_resp.endpoint = "content"
          /\ ~search_content_invalid(kw)
          /\ \/ kw.exclude_categories # {} /\ kw.include_categories = {}
             \/ kw.exclude_levels # {} /\ kw.include_levels = {}
          /\ kw.include_categories = {} /\ kw.include_levels = {} )
        => /\ apply_content_item_filters(kw).ok
           /\ apply_content_item_filters(kw).event_ids = {}
           /\ apply_content_item_filters(kw).ids
                 = apply_content_item_filters(WithoutLoneExcludes(kw)).ids
           /\ search_resp.status = "ok"
           /\ search_resp.total
                 = Cardinality(apply_content_item_filters(WithoutLoneExcludes(kw)).ids)

\* the request without any exclude-category or exclude-level list
WithoutExcludes(kw) == [kw EXCEPT !.exclude_categories = {}, !.exclude_levels = {}]

\* C13: for every combination of the category and level lists the filters
\* compose without error, the returned event ids are the events resolved by
\* the include lists minus the events resolved by the exclude lists, and the
\* content rows are not restricted by a join on the excluded events.
C13_ExclusionIsSetSubtraction ==
    LET kw == search_resp.kw
    IN  ( /\ search_resp.endpoint = "content"
          /\ ~search_content_invalid(kw) )
        => /\ apply_content_item_filters(kw).ok
           /\ apply_content_item_filters(kw).event_ids
                 = ( (IF kw.include_categories = {} THEN {}
                      ELSE IdSet(CategoryEventIds(kw.org_id, kw.include_categories)))
                     \cup (IF kw.include_levels = {} THEN {}
                           ELSE IdSet(LevelEventIds(kw.org_id, kw.include_levels))) )
                   \ ( (IF kw.exclude_categories = {} THEN {}
                        ELSE IdSet(CategoryEventIds(kw.org_id, kw.exclude_categories)))
                       \cup (IF kw.exclude_levels = {} THEN {}
                             ELSE IdSet(LevelEventIds(kw.org_id, kw.exclude_levels))) )
           /\ apply_content_item_filters(kw).ids
                 = apply_content_item_filters(WithoutExcludes(kw)).ids

(***************************************************************************)
(* Properties of the pagination                                             *)
(***************************************************************************)
\* the rows a search matches, and the item lists that page p of the same
\* search may return: every page is a request of its own, whose query
\* returns its rows in any order that agrees with the sort
Matching(r) ==
    IF r.endpoint = "events" THEN apply_event_filters(r.kw)
    ELSE apply_content_item_filters(r.kw).ids

PageItems(r, p) ==
    IF r.endpoint = "events"
    THEN {search_events_result([r.kw EXCEPT !.page = p], o).items :
             o \in EventOrders([r.kw EXCEPT !.page = p])}
    ELSE {search_content_result([r.kw EXCEPT !.page = p], o).items :
             o \in ContentOrders([r.kw EXCEPT !.page = p])}

\* ceil(total / per_page)
PageCount(r) == (r.total + r.kw.per_page - 1) \div r.kw.per_page

\* the concatenations of pages p..n
RECURSIVE Concats(_, _, _)
Concats(r, p, n) ==
    IF p > n THEN {<<>>}
    ELSE {a \o b : a \in PageItems(r, p), b \in Concats(r, p + 1, n)}

\* C16: on unchanged tables and with fixed filter and sort parameters, the
\* items of pages 1..ceil(total/per_page) put together are exactly total
\* rows, every matching row once, also when rows tie on the sort column and
\* for sort=relevance.
C16_PagesPartitionTheRows ==
    (search_resp.status = "ok" /\ search_resp.kw.page = 1)
    => \A rest \in Concats(search_resp, 2, PageCount(search_resp)) :
          LET all == search_resp.items \o rest
          IN  /\ Len(all) = search_resp.total
              /\ {all[i] : i \in 1..Len(all)} = Matching(search_resp)
              /\ \A i, j \in 1..Len(all) : all[i] = all[j] => i = j

(***************************************************************************)
(* Properties of the validation                                             *)
(***************************************************************************)
\* C17: in search_content and search_events every validation failure of a
\* request parameter (sort or select field, category, level, type, status,
\* provenance, search vector, facet name) is raised before the request has
\* executed any database query.
C17_ValidationBeforeQueries ==
    search_resp.status = "invalid" => search_resp.queries = 0

(***************************************************************************)
(* The facets of search_content, computed on content_facet_pool.  The pool *)
(* is a module-level gevent Pool: spawn() blocks while as many greenlets   *)
(* as its size are running, and imap_unordered hands the results back in   *)
(* the order in which the greenlets finish.                                 *)
(***************************************************************************)
\* mutant: the pool is one worker short of the facets
PoolSize_one_less == Cardinality(CONTENT_ITEM_FACETS) - 1

\* content_facet_pool = Pool(len(CONTENT_ITEM_FACETS))
PoolSize == Cardinality(CONTENT_ITEM_FACETS)

\* copy(CONTENT_ITEM_FACETS): the list of the facet names
FacetNames == <<"tags", "categories", "levels", "events", "event_statuses">>

Range(list) == {list[i] : i \in 1..Len(list)}

\* if 'all' in kw['facets']: kw['facets'] = copy(CONTENT_ITEM_FACETS)
ExpandFacets(list) == IF "all" \in Range(list) THEN FacetNames ELSE list

\* the facets parameters of the requests: arg_list keeps the names in the
\* order and as often as the request lists them
FacetLists ==
    {<<"all">>, <<"tags">>, <<"events", "tags">>, <<"tags", "tags">>,
     <<"all", "tags">>, <<"bogus">>,
     [i \in 1..(Cardinality(CONTENT_ITEM_FACETS) + 1) |-> "tags"]}

\* the kw of a search_content request that gives only the facets parameter
FacetKw(org, list) == [DefaultContentKw(org) EXCEPT !.facets = Range(list)]

\* fx(by): the result of the worker for one facet name
fx(kw, by) == Facets(kw, apply_content_item_filters(kw))[by]

\* mutant: the result replaces the mapping instead of being added to it
MergeFacet_replace(facets, by, result) == (by :> result)

\* facets[by] = result
MergeFacet(facets, by, result) == (by :> result) @@ facets

\* search_content up to the pooled facet function: the validation of the
\* facets, the expansion of 'all', the ids the workers are handed
FacetsBegin(r) ==
    /\ facet_reqs[r].pc = "idle"
    /\ \E org \in Orgs, list \in FacetLists :
          facet_reqs' = [facet_reqs EXCEPT ![r] =
              IF facets_invalid(FacetKw(org, list))
              THEN [pc |-> "invalid", kw |-> FacetKw(org, list), names |-> list,
                    next |-> 1, running |-> {}, facets |-> <<>>]
              ELSE [pc |-> "computing", kw |-> FacetKw(org, list),
                    names |-> ExpandFacets(list),
                    next |-> 1, running |-> {}, facets |-> <<>>]]
    /\ UNCHANGED <<events, now, resp, event_delete_done, content, search_resp,
                   pool, ga_vars, txns>>

\* imap_unordered spawns the computation of the next name of the list; the
\* spawn goes through only when the pool has a free slot
FacetSubmit(r) ==
    /\ facet_reqs[r].pc = "computing"
    /\ facet_reqs[r].next <= Len(facet_reqs[r].names)
    /\ pool < PoolSize
    /\ pool' = pool + 1
    /\ facet_reqs' = [facet_reqs EXCEPT
                         ![r].running = @ \cup {facet_reqs[r].next},
                         ![r].next = @ + 1]
    /\ UNCHANGED <<events, now, resp, event_delete_done, content, search_resp,
                   ga_vars, txns>>

\* one of the running computations finishes, frees its slot, and the loop
\* of the request stores its result
FacetComplete(r) ==
    /\ facet_reqs[r].pc = "computing"
    /\ \E i \in facet_reqs[r].running :
          LET by == facet_reqs[r].names[i]
          IN  facet_reqs' = [facet_reqs EXCEPT
                  ![r].running = @ \ {i},
                  ![r].facets = MergeFacet(@, by, fx(facet_reqs[r].kw, by))]
    /\ pool' = pool - 1
    /\ UNCHANGED <<events, now, resp, event_delete_done, content, search_resp,
                   ga_vars, txns>>

\* all results are in: resp['facets'] = facets
FacetsDone(r) ==
    /\ facet_reqs[r].pc = "computing"
    /\ facet_reqs[r].next > Len(facet_reqs[r].names)
    /\ facet_reqs[r].running = {}
    /\ facet_reqs' = [facet_reqs EXCEPT ![r].pc = "done"]
    /\ UNCHANGED <<events, now, resp, event_delete_done, content, search_resp,
                   pool, ga_vars, txns>>

\* the tables the requests search
InitFacets ==
    /\ events = [id \in SearchIds |-> EventRow(id, "pending", NoTags)]
    /\ content = [id \in SearchIds |-> ContentRow(id, "article")]
    /\ now = MaxNow
    /\ resp = "none"
    /\ event_delete_done = {}
    /\ search_resp = NoSearch
    /\ Quiet

NextFacets ==
    \E r \in FacetRequests :
        \/ FacetsBegin(r)
        \/ FacetSubmit(r)
        \/ FacetComplete(r)
        \/ FacetsDone(r)

SpecFacets == InitFacets /\ [][NextFacets]_vars

\* C14: for a non-empty facets parameter the facets of the response have
\* exactly one entry per requested name, 'all' standing for every name of
\* CONTENT_ITEM_FACETS, and the mapping is the same whatever the order in
\* which the workers completed.
C14_FacetsPerName ==
    \A r \in FacetRequests :
        facet_reqs[r].pc = "done"
        => LET kw == facet_reqs[r].kw
           IN  /\ DOMAIN facet_reqs[r].facets
                     = IF "all" \in kw.facets THEN CONTENT_ITEM_FACETS ELSE kw.facets
               /\ \A by \in DOMAIN facet_reqs[r].facets :
                     facet_reqs[r].facets[by] = fx(kw, by)

\* a request for all facets has its response while another is computing
C14_Witness ==
    \E r, o \in FacetRequests :
        /\ facet_reqs[r].pc = "done"
        /\ DOMAIN facet_reqs[r].facets = CONTENT_ITEM_FACETS
        /\ facet_reqs[o].pc = "computing"

\* a request that has a computation to submit
HasSubmission(r) ==
    /\ facet_reqs[r].pc = "computing"
    /\ facet_reqs[r].next <= Len(facet_reqs[r].names)

\* C15 as stated: whenever a request submits a facet computation fewer than
\* len(CONTENT_ITEM_FACETS) computations are running in the pool, also with
\* several requests at a time and with a name listed more than once.
C15_NeverWaits ==
    \A r \in FacetRequests : HasSubmission(r) => pool < PoolSize

\* the names of the list are pairwise different
Distinct(list) == \A i, j \in 1..Len(list) : list[i] = list[j] => i = j

\* C15 (amended): a request that computes its facets while no other request
\* does, and whose facet names are pairwise different, never waits for a
\* free worker: whenever it submits a computation fewer than
\* len(CONTENT_ITEM_FACETS) are running.  The pool is shared by all requests.
C15_AloneNeverWaits ==
    \A r \in FacetRequests :
        ( /\ HasSubmission(r)
          /\ Distinct(facet_reqs[r].names)
          /\ \A o \in FacetRequests \ {r} : facet_reqs[o].pc # "computing" )
        => pool < PoolSize

\* a request alone in the pool submits the last of all the facets
C15_Witness ==
    \E r \in FacetRequests :
        /\ HasSubmission(r)
        /\ Distinct(facet_reqs[r].names)
        /\ \A o \in FacetRequests \ {r} : facet_reqs[o].pc # "computing"
        /\ facet_reqs[r].next = Len(FacetNames)
        /\ pool = PoolSize - 1

(***************************************************************************)
(* The google-analytics handshake: ga_auth, ga_callback,                   *)
(* ga_save_properties and ga_revoke.  Every client is a browser with a     *)
(* session of its own, one request at a time; the requests of different    *)
(* clients interleave between the lookup of the Auth row and the commit.   *)
(***************************************************************************)
MaxAuthId == 2

\* the organization the requests of a client are made for
ClientOrg == [c \in Clients |-> 1]

\* the tokens the provider hands out, and the properties of the form
Tokens == {"a", "b"}
Properties == "p"

\* Auth.query.filter_by(name='google-analytics', org_id=org_id).first():
\* the id of the row, 0 when there is none
AuthFirst(org_id) ==
    IF org_id \in Orgs /\ auths.rows[org_id] # <<>>
    THEN auths.rows[org_id][1].id
    ELSE 0

\* the position of the row with this id among the rows of the org, 0 if gone
AuthPos(org_id, id) ==
    IF \E i \in 1..Len(auths.rows[org_id]) : auths.rows[org_id][i].id = id
    THEN CHOOSE i \in 1..Len(auths.rows[org_id]) : auths.rows[org_id][i].id = id
    ELSE 0

\* mutant: the table takes a second row for the same (org, name)
AuthInsert_unconstrained(org_id, value) ==
    [ok |-> TRUE,
     auths |-> [auths EXCEPT
                   !.rows[org_id] = Append(@, [id |-> auths.next_id,
                                               value |-> value]),
                   !.next_id = @ + 1]]

\* the INSERT of a new Auth row at commit: the auths table holds at most one
\* row per (org, name), so the insert fails when the org has a row by then
AuthInsert(org_id, value) ==
    IF auths.rows[org_id] # <<>>
    THEN [ok |-> FALSE, auths |-> auths]
    ELSE [ok |-> TRUE,
          auths |-> [auths EXCEPT
                        !.rows[org_id] = Append(@, [id |-> auths.next_id,
                                                    value |-> value]),
                        !.next_id = @ + 1]]

\* ga_token.value = tokens
SetValue(row, tokens) == [row EXCEPT !.value = tokens]

\* the UPDATE of the row that was looked up: it fails when the row has been
\* deleted since
AuthUpdate(org_id, id, value) ==
    IF AuthPos(org_id, id) = 0
    THEN [ok |-> FALSE, auths |-> auths]
    ELSE [ok |-> TRUE,
          auths |-> [auths EXCEPT !.rows[org_id][AuthPos(org_id, id)] =
                                      SetValue(@, value)]]

\* db.session.delete(ga_token): the DELETE of the row that was looked up
AuthDelete(org_id, id) ==
    IF AuthPos(org_id, id) = 0
    THEN [ok |-> FALSE, auths |-> auths]
    ELSE [ok |-> TRUE,
          auths |-> [auths EXCEPT !.rows[org_id] =
                        SubSeq(@, 1, AuthPos(org_id, id) - 1)
                        \o SubSeq(@, AuthPos(org_id, id) + 1, Len(@))]]

\* a request of client c has ended
GaEnded(c, handler, last) ==
    [ga_reqs EXCEPT ![c] = [pc |-> "idle", handler |-> handler, last |-> last]]

\* ga_auth: the user, the org and the redirect_uri go into the session
ga_auth(c) ==
    /\ ga_reqs[c].pc = "idle"
    /\ session' = [session EXCEPT ![c].apikey = "key",
                                  ![c].org_id = ClientOrg[c],
                                  ![c].redirect_uri = "uri"]
    /\ ga_reqs' = GaEnded(c, "ga_auth", "ok")
    /\ UNCHANGED <<events, now, resp, event_delete_done, content, search_resp,
                   facet_vars, auths, ga_stashed, txns>>

\* ga_callback, the provider answering with token t, with or without a
\* refresh token
ga_callback(c, t, refresh_token) ==
    /\ ga_reqs[c].pc = "idle"
    /\ LET org_id == session[c].org_id
           ga_token == AuthFirst(org_id)
       IN  IF ~refresh_token /\ ga_token = 0
           THEN \* no refresh token and no record: the request ends here
                /\ ga_reqs' = GaEnded(c, "ga_callback", "failed")
                /\ UNCHANGED <<session, ga_stashed>>
           ELSE /\ session' = [session EXCEPT ![c].tokens =
                       IF refresh_token THEN t
                       ELSE auths.rows[org_id][1].value.tokens]
                /\ ga_stashed' = ga_stashed \cup {c}
                /\ ga_reqs' = GaEnded(c, "ga_callback", "ok")
    /\ UNCHANGED <<events, now, resp, event_delete_done, content, search_resp,
                   facet_vars, auths, txns>>

\* mutant: the tokens are read and left in the session
PopSession_keeps_tokens(s) == [s EXCEPT !.redirect_uri = Absent]

\* session.pop('redirect_uri'); session.pop('tokens')
PopSession(s) == [s EXCEPT !.redirect_uri = Absent, !.tokens = Absent]

\* The sessions a failed request of client c may leave behind: whether the
\* changes a handler made to the session before it raised are kept depends
\* on how the framework answers the error.
AfterFailure(c, changed) == {session, [session EXCEPT ![c] = changed]}

\* ga_save_properties up to the lookup of the Auth row.  session.pop raises
\* KeyError on a key that is not in the session.
ga_save_properties_begin(c) ==
    /\ ga_reqs[c].pc = "idle"
    /\ IF session[c].redirect_uri = Absent
       THEN /\ ga_reqs' = GaEnded(c, "ga_save_properties", "failed")
            /\ UNCHANGED session
       ELSE IF session[c].tokens = Absent
       THEN /\ ga_reqs' = GaEnded(c, "ga_save_properties", "failed")
            /\ session' \in AfterFailure(c, [session[c] EXCEPT !.redirect_uri = Absent])
       ELSE /\ ga_reqs' = [ga_reqs EXCEPT ![c] =
                   [pc |-> "save", handler |-> "ga_save_properties", last |-> "none",
                    value |-> [tokens |-> session[c].tokens, properties |-> Properties],
                    ga_token |-> AuthFirst(ClientOrg[c])]]
            /\ UNCHANGED session
    /\ UNCHANGED <<events, now, resp, event_delete_done, content, search_resp,
                   facet_vars, auths, ga_stashed, txns>>

\* db.session.add(ga_token); db.session.commit() and the response
ga_save_properties_commit(c) ==
    /\ ga_reqs[c].pc = "save"
    /\ ga_reqs[c].ga_token = 0 => auths.next_id <= MaxAuthId
    /\ LET r == IF ga_reqs[c].ga_token = 0
                THEN AuthInsert(ClientOrg[c], ga_reqs[c].value)
                ELSE AuthUpdate(ClientOrg[c], ga_reqs[c].ga_token, ga_reqs[c].value)
       IN  /\ auths' = r.auths
           /\ IF r.ok
              THEN /\ session' = [session EXCEPT ![c] = PopSession(@)]
                   /\ ga_stashed' = ga_stashed \ {c}
                   /\ ga_reqs' = GaEnded(c, "ga_save_properties", "ok")
              ELSE /\ session' \in AfterFailure(c, PopSession(session[c]))
                   /\ UNCHANGED ga_stashed
                   /\ ga_reqs' = GaEnded(c, "ga_save_properties", "failed")
    /\ UNCHANGED <<events, now, resp, event_delete_done, content, search_resp,
                   facet_vars, txns>>

\* ga_revoke up to the lookup: obj_or_404 raises when there is no record
ga_revoke_begin(c) ==
    /\ ga_reqs[c].pc = "idle"
    /\ ga_reqs' =
          IF AuthFirst(ClientOrg[c]) = 0
          THEN GaEnded(c, "ga_revoke", "failed")
          ELSE [ga_reqs EXCEPT ![c] =
                   [pc |-> "revoke", handler |-> "ga_revoke", last |-> "none",
                    ga_token |-> AuthFirst(ClientOrg[c])]]
    /\ UNCHANGED <<events, now, resp, event_delete_done, content, search_resp,
                   facet_vars, auths, session, ga_stashed, txns>>

\* db.session.delete(ga_token); db.session.commit()
ga_revoke_commit(c) ==
    /\ ga_reqs[c].pc = "revoke"
    /\ LET r == AuthDelete(ClientOrg[c], ga_reqs[c].ga_token)
       IN  /\ auths' = r.auths
           /\ ga_reqs' = GaEnded(c, "ga_revoke", IF r.ok THEN "ok" ELSE "failed")
    /\ UNCHANGED <<events, now, resp, event_delete_done, content, search_resp,
                   facet_vars, session, ga_stashed, txns>>

InitGA ==
    /\ events = [e \in EventIds |-> NewEvent(1)]
    /\ now = 0
    /\ resp = "none"
    /\ event_delete_done = {}
    /\ content = <<>>
    /\ search_resp = NoSearch
    /\ Quiet

NextGA ==
    \E c \in Clients :
        \/ ga_auth(c)
        \/ \E t \in Tokens, refresh_token \in BOOLEAN : ga_callback(c, t, refresh_token)
        \/ ga_save_properties_begin(c)
        \/ ga_save_properties_commit(c)
        \/ ga_revoke_begin(c)
        \/ ga_revoke_commit(c)

SpecGA == InitGA /\ [][NextGA]_vars

\* the 'google-analytics' rows of the org of client c
AuthRows(c) == auths.rows[ClientOrg[c]]

\* every organization has at most one 'google-analytics' Auth row
AtMostOneAuth == \A o \in Orgs : Len(auths.rows[o]) <= 1

\* a ga_save_properties request of client c commits in this step: it
\* creates the row when there is none, overwrites the value of the row it
\* looked up, and otherwise (the row was created or deleted by another
\* request since the lookup) fails and changes nothing
SaveCommits(c) ==
    (ga_reqs[c].pc = "save" /\ ga_reqs'[c].pc = "idle")
    => IF ga_reqs[c].ga_token = 0 /\ AuthRows(c) = <<>>
       THEN /\ ga_reqs'[c].last = "ok"
            /\ auths'.rows[ClientOrg[c]]
                  = <<[id |-> auths.next_id, value |-> ga_reqs[c].value]>>
       ELSE IF /\ ga_reqs[c].ga_token # 0
               /\ Len(AuthRows(c)) = 1
               /\ AuthRows(c)[1].id = ga_reqs[c].ga_token
       THEN /\ ga_reqs'[c].last = "ok"
            /\ auths'.rows[ClientOrg[c]]
                  = <<[id |-> ga_reqs[c].ga_token, value |-> ga_reqs[c].value]>>
       ELSE /\ ga_reqs'[c].last = "failed"
            /\ auths' = auths

\* a ga_revoke request of client c commits in this step: it deletes the row
\* it looked up, if the row is still there
RevokeCommits(c) ==
    (ga_reqs[c].pc = "revoke" /\ ga_reqs'[c].pc = "idle")
    => IF Len(AuthRows(c)) = 1 /\ AuthRows(c)[1].id = ga_reqs[c].ga_token
       THEN /\ ga_reqs'[c].last = "ok"
            /\ auths'.rows[ClientOrg[c]] = <<>>
       ELSE /\ ga_reqs'[c].last = "failed"
            /\ auths' = auths

C20_TokensOnlyForHandshake ==
    /\ [](\A c \in Clients : c \notin ga_stashed => session[c].tokens = Absent)
    /\ [][\A c \in Clients :
            /\ ( /\ ga_reqs[c].pc = "save"
                 /\ ga_reqs'[c].pc = "idle"
                 /\ ga_reqs'[c].last = "ok" )
               => /\ session'[c].tokens = Absent
                  /\ session'[c].redirect_uri = Absent
            /\ ( /\ c \notin ga_stashed
                 /\ ga_reqs[c].pc = "idle"
                 /\ ga_reqs'[c] # ga_reqs[c]
                 /\ ga_reqs'[c].handler = "ga_save_properties" )
               => /\ ga_reqs'[c].pc = "idle"
                  /\ ga_reqs'[c].last = "failed"
                  /\ auths' = auths
            /\ ( /\ ga_reqs[c].pc = "idle"
                 /\ ga_reqs'[c] # ga_reqs[c]
                 /\ ga_reqs'[c].handler = "ga_callback"
                 /\ ga_reqs'[c].last = "failed" )
               => /\ session'[c].tokens = session[c].tokens
                  /\ (c \in ga_stashed') = (c \in ga_stashed)
         ]_vars

\* after a completed save, a second ga_save_properties of the client, with
\* ga_auth but no ga_callback in between, has failed
C20_Witness ==
    \E c \in Clients :
        /\ c \notin ga_stashed
        /\ ga_reqs[c].handler = "ga_save_properties"
        /\ ga_reqs[c].pc = "idle"
        /\ ga_reqs[c].last = "failed"
        /\ session[c].tokens = Absent
        /\ \E i \in 1..Len(AuthRows(c)) : AuthRows(c)[i].value.tokens \in Tokens

(***************************************************************************)
(* Concurrent event_update requests.  A request reads the event into its   *)
(* own session, changes the object in memory, and commits; the requests    *)
(* interleave between the read and the commit.  There is no version check. *)
(***************************************************************************)
\* the columns a request can change
WrittenColumns == {"status", "title", "updated"}

\* mutant: the commit writes the whole object as the request holds it
Flush_whole_row(current, e, new) == new

\* db.session.add(e); db.session.commit(): the UPDATE sets the columns
\* whose value the request changed on the object it read (the others are
\* not part of the statement), and the rows of the tags and things the
\* request appended are inserted
Flush(current, e, new) ==
    [current EXCEPT
        !.status = IF new.status # e.status THEN new.status ELSE @,
        !.title = IF new.title # e.title THEN new.title ELSE @,
        !.updated = IF new.updated # e.updated THEN new.updated ELSE @,
        !.tags = [t \in TagIds |-> @[t] + (new.tags[t] - e.tags[t])],
        !.things = [t \in ThingIds |-> @[t] + (new.things[t] - e.things[t])]]

\* the request inserts an association row that another request has
\* inserted since the read
InsertsTwice(current, e, new) ==
    \/ \E t \in TagIds : new.tags[t] > e.tags[t] /\ current.tags[t] > 0
    \/ \E t \in ThingIds : new.things[t] > e.things[t] /\ current.things[t] > 0

\* the bodies of the racing requests
RaceTagLists == {{}, {1}}
RaceThingLists == {{}, {1}}

\* event_update up to the commit: the lookups, the checks and the changes
\* to the object in memory
event_update_read(t, org, event_id) ==
    /\ txns[t].pc = "idle"
    /\ \E tag_ids \in RaceTagLists, thing_ids \in RaceThingLists,
          req_status \in ReqStatuses, req_title \in ReqTitles :
       \E tags \in TagRows(tag_ids), things \in ThingRows(thing_ids) :
          LET r == event_update_result(org, event_id, tag_ids, thing_ids,
                                       req_status, req_title, tags, things)
          IN  txns' = [txns EXCEPT ![t] =
                  IF r.resp # "ok"
                  THEN [pc |-> "failed", resp |-> r.resp]
                  ELSE [pc |-> "read", event_id |-> event_id,
                        e |-> events[event_id], new |-> r.events[event_id],
                        seq |-> 0]]
    /\ UNCHANGED <<events, now, resp, event_delete_done, content, search_resp,
                   facet_vars, ga_vars>>

\* the commits so far
Committed == {t \in Txns : txns[t].pc = "committed"}

\* the commit: it goes through, or, where the request inserts an
\* association row that is there by now, it may fail as a whole (whether
\* the association tables refuse the second row is not decided here)
event_update_commit(t) ==
    /\ txns[t].pc = "read"
    /\ LET id == txns[t].event_id
       IN  \/ /\ events' = [events EXCEPT ![id] =
                               Flush(@, txns[t].e, txns[t].new)]
              /\ txns' = [txns EXCEPT ![t].pc = "committed",
                                      ![t].seq = Cardinality(Committed) + 1]
           \/ /\ InsertsTwice(events[id], txns[t].e, txns[t].new)
              /\ txns' = [txns EXCEPT ![t] = [pc |-> "failed", resp |-> "integrity"]]
              /\ UNCHANGED events
    /\ UNCHANGED <<now, resp, event_delete_done, content, search_resp,
                   facet_vars, ga_vars>>

\* time passes between the steps of the requests
RaceTick ==
    /\ now < MaxNow
    /\ now' = now + 1
    /\ UNCHANGED <<events, resp, event_delete_done, content, search_resp,
                   facet_vars, ga_vars, txns>>

NextRace ==
    \/ RaceTick
    \/ \E t \in Txns, org \in Orgs, event_id \in EventIds :
          event_update_read(t, org, event_id)
    \/ \E t \in Txns : event_update_commit(t)

SpecRace == Init /\ [][NextRace]_vars

\* both requests have committed, a first and b second
BothCommitted(a, b) ==
    /\ txns[a].pc = "committed" /\ txns[a].seq = 1
    /\ txns[b].pc = "committed" /\ txns[b].seq = 2

\* the value of a column of an event row
Col(e, c) == IF c = "status" THEN e.status
             ELSE IF c = "title" THEN e.title
             ELSE e.updated

\* C19 as stated: after two interleaved event_update requests have both
\* committed, the event carries the full field set of the request that
\* committed last; no column value written only by the earlier one survives.
C19_LastWriterWins ==
    \A a, b \in Txns :
        BothCommitted(a, b)
        => \A c \in WrittenColumns :
              Col(events[txns[b].event_id], c) = Col(txns[b].new, c)

\* C19 (amended): after both have committed, every column carries the value
\* of the last committer that changed it: the later committer's value where
\* its request changed the column, else the earlier committer's value where
\* that one changed it, else the value both had read (a per-column merge).
C19_PerColumnMerge ==
    \A a, b \in Txns :
        BothCommitted(a, b)
        => \A c \in WrittenColumns :
              Col(events[txns[b].event_id], c)
                 = IF Col(txns[b].new, c) # Col(txns[b].e, c) THEN Col(txns[b].new, c)
                   ELSE IF Col(txns[a].new, c) # Col(txns[a].e, c) THEN Col(txns[a].new, c)
                   ELSE Col(txns[a].e, c)

\* two requests that read the same row have committed; the title is the one
\* the first wrote, the status the one the second wrote
C19_Witness ==
    \E a, b \in Txns :
        /\ BothCommitted(a, b)
        /\ txns[a].e = txns[b].e
        /\ txns[a].new.title # txns[a].e.title
        /\ txns[b].new.title = txns[b].e.title
        /\ txns[b].new.status # txns[b].e.status
        /\ events[txns[b].event_id].title = txns[a].new.title
        /\ events[txns[b].event_id].status = txns[b].new.status

(***************************************************************************)
(* Properties of the associations and of the status after event_update     *)
(***************************************************************************)
\* C22: in every reachable state every tag and every thing associated with
\* an event belongs to the organization of the event.
C22_AssociationsInOrg ==
    \A id \in EventIds :
        /\ \A t \in tag_ids_of(events[id]) :
              TagOrg[t] = events[id].organization_id
        /\ \A t \in thing_ids_of(events[id]) :
              ThingOrg[t] = events[id].organization_id

\* C23: a successful event_update with non-empty tag_ids and thing_ids
\* leaves the event approved, whatever its status was and whatever status
\* the body asks for; a successful one without both lists sets the status
\* to the requested value, or leaves it as it was when none is requested.
C23_StatusAfterUpdate ==
    \A event_id \in DOMAIN events :
        \A org \in Orgs, tag_ids \in ReqTagLists, thing_ids \in ReqThingLists,
           req_status \in ReqStatuses, req_title \in ReqTitles :
           \A tags \in TagRows(tag_ids), things \in ThingRows(thing_ids) :
              LET r == event_update_result(org, event_id, tag_ids, thing_ids,
                                           req_status, req_title, tags, things)
              IN  r.resp = "ok"
                  => r.events[event_id].status
                        = IF tag_ids # {} /\ thing_ids # {} THEN "approved"
                          ELSE IF req_status # "none" THEN req_status
                          ELSE events[event_id].status

\* an event that event_delete had deleted is approved again and carries a
\* tag and a thing: an update with both lists has approved a deleted event
C23_Witness ==
    \E event_id \in event_delete_done :
        /\ resp = "ok"
        /\ events[event_id].status = "approved"
        /\ tag_ids_of(events[event_id]) # {}
        /\ thing_ids_of(events[event_id]) # {}

(***************************************************************************)
(* Properties of the event ids of the facets                                *)
(***************************************************************************)
\* the events associated with at least one content item of the result
EventsOfResult(kw) ==
    {e \in DOMAIN events :
        \E id \in apply_content_item_filters(kw).ids : e \in content[id].events}

\* C21: the event ids handed to the event-derived facets of search_content
\* are events associated with at least one content item of the filtered
\* result, whether they were fetched from content_items_events or
\* accumulated by the category and level filters.
C21_FacetEventsOfResult ==
    (search_resp.endpoint = "content" /\ search_resp.status = "ok")
    => \A by \in DOMAIN search_resp.facets \cap CONTENT_ITEM_EVENT_FACETS :
          search_resp.facets[by] \subseteq EventsOfResult(search_resp.kw)

=============================================================================
